---------------------------- MODULE Spec2Model ----------------------------
(***************************************************************************)
(* A model of trendhunter's fetch orchestration: TrendHunterAPI.execute    *)
(* and _fetch_all (src/src/trendhunter/api.py), the pagination cursors     *)
(* (URLIterator and its subclasses) and the TokenBucket rate limiter       *)
(* (src/src/trendhunter/utils.py).                                         *)
(*                                                                         *)
(* The specifications of the module:                                       *)
(*   Spec        one run of execute(), from the seed fetch to the last     *)
(*               yielded batch;                                            *)
(*   SpecRuns    runs of execute() in sequence on one dedup set;           *)
(*   SpecFetch   one call of async_get_urls: semaphore, primary and        *)
(*               fallback request of each fetch;                           *)
(*   SpecCursor  a cursor instance under next() and iter();                *)
(*   SpecBucket  one token bucket shared by concurrent acquirers;          *)
(*   SpecLive    the same bucket over unbounded time, with fairness;       *)
(*   SpecNew     the constructor of the token bucket.                      *)
(***************************************************************************)
EXTENDS Integers, Sequences, FiniteSets, TLC

(***************************************************************************)
(* Bounds of the model.                                                    *)
(***************************************************************************)
\* largest requested link count N
MaxN == 3
\* largest chunk size M
MaxM == 2
\* most links on one fetched page
MaxPageLen == 2
\* most discovery iterations a run of the model performs
MaxRounds == 3
\* the iteration bound the fail-safe of the specification would be set to
FailSafeBound == 1
\* most next() calls on a cursor of SpecCursor
MaxNext == 4
\* largest max_bucket_size and largest rate (tokens per second) of a bucket
MaxCapacity == 2
MaxRate == 2
\* clock ticks in a second: the clock's 10**9 ns, coarsened
Second == 2
\* the clock of SpecBucket stops here
MaxTime == 4
\* most __aenter__ calls on the bucket of SpecBucket
MaxEntries == 5
\* largest concurrency of a call of async_get_urls
MaxConcurrency == 2
\* most execute() runs on one dedup set
MaxRuns == 2

None == "None"

\* article URLs the remote site can serve; SeedUrl is urljoin(BASE_URL, f"{page_type}/{uid}")
SeedUrl == "seed"
URLS == {SeedUrl, "a", "b"}

\* PageType members
TREND == "trends"
LIST == "slideshow"
CATAGORY == "category"
SEARCH == "search"
\* the page types a run of the model is started with (SEARCH runs as CATAGORY does)
PageTypes == {TREND, LIST, CATAGORY}

\* what the primary transport and the fallback transport can answer
Primaries == {"ok", "sentinel", "error"}
Fallbacks == {"200", "other", "exception"}

(***************************************************************************)
(* Sequence helpers.                                                       *)
(***************************************************************************)
Take(s, k) == IF k <= 0 THEN <<>> ELSE SubSeq(s, 1, IF k < Len(s) THEN k ELSE Len(s))

Drop(s, k) == IF k >= Len(s) THEN <<>> ELSE SubSeq(s, k + 1, Len(s))

Range(s) == {s[i] : i \in 1..Len(s)}

NoDup(s) == \A i, j \in 1..Len(s) : i # j => s[i] # s[j]

RECURSIVE Flatten(_)
Flatten(ss) == IF ss = <<>> THEN <<>> ELSE Head(ss) \o Flatten(Tail(ss))

RECURSIVE IsSubseq(_, _)
IsSubseq(s, t) ==
    IF s = <<>> THEN TRUE
    ELSE IF t = <<>> THEN FALSE
    ELSE IF Head(s) = Head(t) THEN IsSubseq(Tail(s), Tail(t))
    ELSE IsSubseq(s, Tail(t))

\* all sequences over S of length at most k
SeqsUpTo(S, k) == UNION {[1..j -> S] : j \in 0..k}

VARIABLES
    \* ---- one run of execute()
    pc,              \* where the generator stands
    n_req,           \* execute's n
    m,               \* execute's m
    page_type,       \* execute's page_type
    all_urls,        \* the caller's dedup set (execute's urls, _fetch_all's all_urls)
    extra,           \* execute's extra
    extra_resources, \* what is left of iter(extra_resources) in the chain
    urls,            \* _fetch_all's urls
    chunked_urls,    \* _fetch_all's chunked_urls
    tasks,           \* the tasks of the asyncio.gather in flight, by position
    resources,       \* resources of the discovery round still to be reduced
    batches,         \* every batch yielded so far, in order
    error,           \* the exception that left execute(), or None
    \* ---- history of the run
    discovered,      \* urls as the discovery loop left it (line 327)
    rounds,          \* discovery iterations begun
    raised_in,       \* the phase the exception was raised in
    listing_failed,  \* a seed or listing fetch failed on both transports
    dropped,         \* links left out of a yielded batch
    seed,            \* what _fetch_one saw of the seed page
    resumes,         \* times the caller asked for the batch after a yielded one
    last,            \* what the latest pass of lines 318-327 had to leave in urls
    earlier,         \* article URLs the earlier runs on this dedup set accepted
    run,             \* which execute() on this dedup set this is
    \* ---- the cursor
    iterator,        \* the cursor object's fields, or None
    increment,       \* URLIterator.increment
    descs,           \* every descriptor next() produced, in order
    restarted,       \* iter() was called on the cursor after a next()
    \* ---- the token bucket
    max_bucket_size,     \* TokenBucket.max_bucket_size
    rate,                \* TokenBucket.rate, tokens per second
    current_bucket_size, \* TokenBucket.current_bucket_size, in 1/Second of a token
    bucket_resized_at,   \* TokenBucket.bucket_resized_at, in ticks, or NoTime
    now,                 \* the clock read by get_current_time_in_nanoseconds
    caller,              \* each coroutine's place in __aenter__ / the scope
    entries,             \* __aenter__ calls so far
    first_at,            \* the clock at the first __aenter__, or NoTime
    \* ---- a call of TokenBucket(max_bucket_size, rate)
    args,                \* the arguments of the call, or None
    made,                \* what the call gave: None before it, "bucket", or the error
    \* ---- one call of async_get_urls
    call,                \* the caller: "_fetch_one", "discover" or "hydrate"
    concurrency,         \* async_get_urls' concurrency
    propagates,          \* async_get_urls' propagate 
    bucket,              \* a TokenBucket was passed
    semaphore,           \* the Semaphore's free permits
    coros,               \* the _async_bridge coroutines of the gather, by position
    gathered             \* the gather: "running", "returned" or "raised"

runVars == <<pc, n_req, m, page_type, all_urls, extra, extra_resources, urls,
             chunked_urls, tasks, resources, batches, error, discovered, rounds,
             raised_in, listing_failed, dropped, seed, resumes, last, earlier,
             run>>

\* the history of a run beyond its own variables
ghostVars == <<seed, resumes, last, earlier, run>>

cursorVars == <<iterator, increment, descs, restarted>>

bucketVars == <<max_bucket_size, rate, current_bucket_size, bucket_resized_at,
                now, caller, entries, first_at>>

ctorVars == <<args, made>>

\* the variables of the specifications that stand apart from a run, a cursor
\* and a bucket in use
fetchVars == <<call, concurrency, propagates, bucket, semaphore, coros, gathered>>

otherVars == <<ctorVars, fetchVars>>

vars == <<runVars, cursorVars, bucketVars, otherVars>>

(***************************************************************************)
(* _async_get_url: what one fetch gives its caller.                        *)
(***************************************************************************)
\* faulty variant: the payload of a 2xx answer not inspected
PrimaryOkWhateverPayload(primary) == primary \in {"ok", "sentinel"}
\* the primary request succeeded and its payload is not the empty-success sentinel
PrimaryOk(primary) == primary = "ok"

GetUrl(primary, fallback, propagate) ==
    IF PrimaryOk(primary) THEN "resource"
    ELSE IF fallback = "200" THEN "resource"
    ELSE IF propagate THEN "raise"
    ELSE "none"

\* both transports failed
FetchFailed(primary, fallback) == ~PrimaryOk(primary) /\ fallback # "200"


(***************************************************************************)
(* The cursors.  A descriptor is the request's query: p, and eid / cid     *)
(* (article pagination) or pt / v / s (listing-type pagination); a         *)
(* parameter the request does not carry is None.  page tells the seed      *)
(* page, which the chain serves ahead of the cursor, from a listing page.  *)
(***************************************************************************)
Ids == {"x", "y"}

ArticleURLIterator(eid, cid) ==
    [kind |-> "article", eid |-> eid, cid |-> cid,
     uid |-> None, page_type |-> None, is_best |-> FALSE]

PageTypeURLIterator(uid, pt, is_best) ==
    [kind |-> "page_type", eid |-> None, cid |-> None,
     uid |-> uid, page_type |-> pt, is_best |-> is_best]

\* the constant URLIterator._increment
BaseIncrement == 0

\* faulty variant: the page tested as it was before the increment
CarriesEidBeforeIncrement(inc) == inc = 0
\* ArticleURLIterator.__next__ chooses eid for this value of increment
CarriesEid(inc) == inc = 1

\* faulty variant: the descriptor built before increment is incremented
ArticleDescriptorBeforeIncrement(it, inc) ==
    [page |-> "listing", p |-> inc - 1,
     eid |-> IF CarriesEid(inc - 1) THEN it.eid ELSE None,
     cid |-> IF CarriesEid(inc - 1) THEN None ELSE it.cid,
     pt |-> None, v |-> None, s |-> None]
ArticleDescriptor(it, inc) ==
    [page |-> "listing", p |-> inc,
     eid |-> IF CarriesEid(inc) THEN it.eid ELSE None,
     cid |-> IF CarriesEid(inc) THEN None ELSE it.cid,
     pt |-> None, v |-> None, s |-> None]

PageTypeDescriptor(it, inc) ==
    [page |-> "listing", p |-> inc, eid |-> None, cid |-> None,
     pt |-> it.page_type, v |-> it.uid,
     s |-> IF it.is_best THEN "best" ELSE None]

\* __next__ of either cursor, called with increment already incremented
Descriptor(it, inc) ==
    IF it.kind = "article" THEN ArticleDescriptor(it, inc)
    ELSE PageTypeDescriptor(it, inc)

\* an entry of extra_resources: the seed page's URL
SeedDescriptor ==
    [page |-> SeedUrl, p |-> 0, eid |-> None, cid |-> None,
     pt |-> None, v |-> None, s |-> None]

\* faulty variant: the chain built with the cursor ahead of extra_resources,
\* which the endless cursor never lets it reach
RECURSIVE DrawChainCursorFirst(_, _, _, _)
DrawChainCursorFirst(er, it, inc, k) ==
    IF k = 0 THEN [items |-> <<>>, er |-> er, inc |-> inc, descs |-> <<>>]
    ELSE
        LET d == Descriptor(it, inc + 1)
            rest == DrawChainCursorFirst(er, it, inc + 1, k - 1)
        IN  [rest EXCEPT !.items = <<d>> \o @, !.descs = <<d>> \o @]

\* k draws from chain(iter(extra_resources), iterator).  The chain calls
\* iter(iterator) when extra_resources runs out, which sets increment to
\* _increment; the cursor is fresh then, so increment stays 0.
RECURSIVE DrawChain(_, _, _, _)
DrawChain(er, it, inc, k) ==
    IF k = 0 THEN [items |-> <<>>, er |-> er, inc |-> inc, descs |-> <<>>]
    ELSE IF er # <<>> THEN
        LET rest == DrawChain(Tail(er), it, inc, k - 1)
        IN  [rest EXCEPT !.items = <<SeedDescriptor>> \o @]
    ELSE
        LET d == Descriptor(it, inc + 1)
            rest == DrawChain(er, it, inc + 1, k - 1)
        IN  [rest EXCEPT !.items = <<d>> \o @, !.descs = <<d>> \o @]

(***************************************************************************)
(* The token bucket.  Time is in clock ticks, Second of them to a second;  *)
(* current_bucket_size counts 1/Second of a token, so that the refill of   *)
(* a span of ticks, span * rate / Second tokens, is the integer            *)
(* span * rate, and one token is Second.                                   *)
(***************************************************************************)
Callers == {"c1", "c2", "c3"}

\* bucket_resized_at before the first resize_bucket
NoTime == -1

Idle == [st |-> "idle", until |-> 0, ord |-> 0, at |-> 0, nap |-> 0, naps |-> 0]

CtorIdle ==
    /\ args = None
    /\ made = None

FetchIdle ==
    /\ call = None
    /\ concurrency = 1
    /\ propagates = FALSE
    /\ bucket = FALSE
    /\ semaphore = 1
    /\ coros = <<>>
    /\ gathered = None

OtherIdle == CtorIdle /\ FetchIdle

BucketIdle ==
    /\ max_bucket_size = 1
    /\ rate = 1
    /\ current_bucket_size = Second
    /\ bucket_resized_at = NoTime
    /\ now = 0
    /\ caller = [c \in Callers |-> Idle]
    /\ entries = 0
    /\ first_at = NoTime

(***************************************************************************)
(* One run of execute().                                                   *)
(***************************************************************************)
\* the n _fetch_all is called with: n - len(extra)
n == n_req - Len(extra)

\* the links a fetched page can carry, in page order
Pages == SeqsUpTo(URLS, MaxPageLen)

\* the propagate flag of each call of async_get_urls
FetchOnePropagate == TRUE
\* faulty variant: the discovery gather called without propagate=True
DiscoverPropagateOff == FALSE
DiscoverPropagate == TRUE
\* faulty variant: the hydration gather called with propagate=True
HydratePropagateOn == TRUE
HydratePropagate == FALSE

\* faulty variant: an appended link replaces the dedup set's content
RECURSIVE AppendUniqueForgetful(_, _, _)
AppendUniqueForgetful(extracted, us, seen) ==
    IF extracted = <<>> THEN [urls |-> us, all_urls |-> seen]
    ELSE IF Head(extracted) \notin seen
         THEN AppendUniqueForgetful(Tail(extracted), Append(us, Head(extracted)),
                                    {Head(extracted)})
         ELSE AppendUniqueForgetful(Tail(extracted), us, seen)

\* the inner loop of lines 322-327
RECURSIVE AppendUnique(_, _, _)
AppendUnique(extracted, us, seen) ==
    IF extracted = <<>> THEN [urls |-> us, all_urls |-> seen]
    ELSE IF Head(extracted) \notin seen
         THEN AppendUnique(Tail(extracted), Append(us, Head(extracted)),
                           seen \cup {Head(extracted)})
         ELSE AppendUnique(Tail(extracted), us, seen)

\* urls followed by the links of the page not in the dedup set when their
\* turn comes, in page order, up to the quota
UniqueUntilQuota(page, us, seen, nn) == Take(AppendUnique(page, us, seen).urls, nn)

\* faulty variant: the page's links taken without the [:limit] slice
ExtractedNoLimit(page, us, nn) == page
\* lines 319-320: extract_urls(resource)[:limit]
Extracted(page, us, nn) == Take(page, nn - Len(us))

\* faulty variant: the extras mixed in behind the discovered links
MixExtrasLast(ex, us) == us \o ex
\* line 331
Mix(ex, us) == ex \o us

\* faulty variant: the chunk cut one link too long
SplitOffByOne(us, mm) == [chunk |-> Take(us, mm + 1), rest |-> Drop(us, mm + 1)]
\* line 334: chunked_urls, urls = urls[:m], urls[m:]
Split(us, mm) == [chunk |-> Take(us, mm), rest |-> Drop(us, mm)]

\* what extract_text finds on a detail page: which fields are not blank
Texts == [title : BOOLEAN, description : BOOLEAN, metadata : BOOLEAN]

NoText == [title |-> FALSE, description |-> FALSE, metadata |-> FALSE]

\* faulty variant: a record kept only when it has its metadata
HasTextNeedsMetadata(text) == text.metadata
\* line 355: text.title or text.description or text.metadata
HasText(text) == text.title \/ text.description \/ text.metadata

\* line 349 and line 355: the link's record goes into the batch
Kept(t) == t.r0 = "resource" /\ t.r1 = "resource" /\ HasText(t.text)

RECURSIVE Articles(_, _)
Articles(chunk, ts) ==
    IF chunk = <<>> THEN <<>>
    ELSE (IF Kept(Head(ts)) THEN <<Head(chunk)>> ELSE <<>>)
         \o Articles(Tail(chunk), Tail(ts))

NewTask(url) == [url |-> url, st |-> "pending", r0 |-> "pending",
                 r1 |-> "pending", text |-> NoText]

Phase ==
    CASE pc = "start" -> "SeedResolution"
      [] pc \in {"discover", "discovery_gather", "reduce"} -> "Discovery"
      [] pc \in {"hydrate", "hydration_gather", "yielded"} -> "Hydration"
      [] pc = "done" -> "Done"
      [] pc = "fatal" -> "Fatal"
      [] OTHER -> "Idle"

\* _fetch_one has not run
NoSeed == [fetches |-> 0, propagate |-> FALSE, got |-> "pending",
           metadata |-> FALSE, image |-> FALSE, seen |-> FALSE]

\* no pass of lines 318-327 yet in this discovery round
NoLast == [set |-> FALSE, want |-> <<>>]

RunInit ==
    /\ pc = "start"
    /\ n_req \in 1..MaxN
    /\ m \in 1..MaxM
    /\ page_type \in PageTypes
    /\ all_urls \in SUBSET URLS
    /\ extra = <<>>
    /\ extra_resources = <<>>
    /\ urls = <<>>
    /\ chunked_urls = <<>>
    /\ tasks = <<>>
    /\ resources = <<>>
    /\ batches = <<>>
    /\ error = None
    /\ discovered = <<>>
    /\ rounds = 0
    /\ raised_in = None
    /\ listing_failed = FALSE
    /\ dropped = 0
    /\ seed = NoSeed
    /\ resumes = 0
    /\ last = NoLast
    /\ earlier = {}
    /\ run = 1

CursorIdle ==
    /\ iterator = None
    /\ increment = 0
    /\ descs = <<>>
    /\ restarted = FALSE

Raise(kind) ==
    /\ pc' = "fatal"
    /\ error' = kind
    /\ raised_in' = Phase

\* faulty variant: the seed page taken whether or not it has its metadata
MetadataNeverMissing(has_metadata) == FALSE
\* line 398: not article.text.metadata
MetadataMissing(has_metadata) == ~has_metadata

\* faulty variant: the seed queued without asking the dedup set
QueuesExtraSeenOrNot(pt, has_image, seen) == pt = TREND /\ has_image
\* lines 403-407: the seed goes into extra
QueuesExtra(pt, has_image, seen) == pt = TREND /\ has_image /\ ~seen

\* execute, lines 393-417, with _fetch_one
FetchOne ==
    /\ pc = "start"
    /\ IF page_type \in {TREND, LIST}
       THEN \E primary \in Primaries, fallback \in Fallbacks,
               has_metadata \in BOOLEAN, has_image \in BOOLEAN :
            LET r == GetUrl(primary, fallback, FetchOnePropagate)
            IN  /\ listing_failed' = FetchFailed(primary, fallback)
                /\ seed' = [fetches |-> seed.fetches + 1,
                            propagate |-> FetchOnePropagate,
                            got |-> r,
                            metadata |-> (r = "resource" /\ has_metadata),
                            image |-> (r = "resource" /\ has_image),
                            seen |-> (SeedUrl \in all_urls)]
                /\ IF r # "resource"
                   THEN /\ Raise("transport")
                        /\ UNCHANGED <<extra, extra_resources, cursorVars>>
                   ELSE IF MetadataMissing(has_metadata)
                   THEN /\ Raise("resource")
                        /\ UNCHANGED <<extra, extra_resources, cursorVars>>
                   ELSE /\ extra' = IF QueuesExtra(page_type, has_image,
                                                   SeedUrl \in all_urls)
                                    THEN <<SeedUrl>> ELSE <<>>
                        /\ extra_resources' = <<SeedUrl>>
                        /\ iterator' = ArticleURLIterator("x", "y")
                        /\ pc' = "discover"
                        /\ UNCHANGED <<error, raised_in, increment, descs, restarted>>
       ELSE \E is_best \in BOOLEAN :
            /\ iterator' = PageTypeURLIterator("x", page_type, is_best)
            /\ pc' = "discover"
            /\ UNCHANGED <<extra, extra_resources, error, raised_in,
                           listing_failed, increment, descs, restarted, seed>>
    /\ UNCHANGED <<n_req, m, page_type, all_urls, urls, chunked_urls, tasks,
                   resources, batches, discovered, rounds, dropped, bucketVars,
                   otherVars, resumes, last, earlier, run>>

\* _fetch_all, lines 304-316: the loop test, the three draws, the launch
DiscoverFetch ==
    /\ pc = "discover"
    /\ Len(urls) < n
    /\ rounds < MaxRounds
    /\ LET d == DrawChain(extra_resources, iterator, increment, 3)
       IN  /\ tasks' = [i \in 1..3 |-> NewTask(d.items[i])]
           /\ extra_resources' = d.er
           /\ increment' = d.inc
           /\ descs' = descs \o d.descs
    /\ rounds' = rounds + 1
    /\ pc' = "discovery_gather"
    /\ last' = NoLast
    /\ UNCHANGED <<n_req, m, page_type, all_urls, extra, urls, chunked_urls,
                   resources, batches, error, discovered, raised_in,
                   listing_failed, dropped, iterator, restarted, bucketVars,
                   otherVars, seed, resumes, earlier, run>>

\* one _async_get_url of the discovery gather resolves
DiscoverResolve(i) ==
    /\ pc = "discovery_gather"
    /\ tasks[i].st = "pending"
    /\ \E primary \in Primaries, fallback \in Fallbacks :
       LET r == GetUrl(primary, fallback, DiscoverPropagate)
       IN  /\ tasks' = [tasks EXCEPT ![i].st = IF r = "raise" THEN "raised" ELSE "done",
                                     ![i].r0 = r]
           /\ listing_failed' = (listing_failed \/ FetchFailed(primary, fallback))
    /\ UNCHANGED <<pc, n_req, m, page_type, all_urls, extra, extra_resources,
                   urls, chunked_urls, resources, batches, error, discovered,
                   rounds, raised_in, dropped, cursorVars, bucketVars,
                   otherVars, ghostVars>>

\* asyncio.gather hands the first exception of a task to asyncio.run's caller
GatherRaise ==
    /\ pc \in {"discovery_gather", "hydration_gather"}
    /\ \E i \in 1..Len(tasks) : tasks[i].st = "raised"
    /\ Raise("transport")
    /\ UNCHANGED <<n_req, m, page_type, all_urls, extra, extra_resources, urls,
                   chunked_urls, tasks, resources, batches, discovered, rounds,
                   listing_failed, dropped, cursorVars, bucketVars,
                   otherVars, ghostVars>>

\* faulty variant: the gather taken as over when its first coroutine is
GatherDoneAtFirst(ts) == \E i \in 1..Len(ts) : ts[i].st = "done"
\* line 139: await asyncio.gather(*tasks) returns when every coroutine has
GatherDone(ts) == \A i \in 1..Len(ts) : ts[i].st = "done"

\* line 318: the gather returned; filter(None, resources)
DiscoverGathered ==
    /\ pc = "discovery_gather"
    /\ GatherDone(tasks)
    /\ resources' = SelectSeq(tasks, LAMBDA t : t.r0 = "resource")
    /\ pc' = IF resources' = <<>> THEN "discover" ELSE "reduce"
    /\ UNCHANGED <<n_req, m, page_type, all_urls, extra, extra_resources, urls,
                   chunked_urls, tasks, batches, error, discovered, rounds,
                   raised_in, listing_failed, dropped, cursorVars, bucketVars,
                   otherVars, ghostVars>>

\* lines 318-327, one resource: extract_urls reads the page
ReduceResource ==
    /\ pc = "reduce"
    /\ resources # <<>>
    /\ \E page \in Pages :
       LET got == AppendUnique(Extracted(page, urls, n), urls, all_urls)
       IN  /\ urls' = got.urls
           /\ all_urls' = got.all_urls
           /\ last' = [set |-> TRUE,
                       want |-> UniqueUntilQuota(page, urls, all_urls, n)]
    /\ resources' = Tail(resources)
    /\ pc' = IF resources' = <<>> THEN "discover" ELSE "reduce"
    /\ UNCHANGED <<n_req, m, page_type, extra, extra_resources, chunked_urls,
                   tasks, batches, error, discovered, rounds, raised_in,
                   listing_failed, dropped, cursorVars, bucketVars,
                   otherVars, seed, resumes, earlier, run>>

\* line 304 exits the loop; line 331
MixExtras ==
    /\ pc = "discover"
    /\ ~(Len(urls) < n)
    /\ urls' = Mix(extra, urls)
    /\ discovered' = urls
    /\ pc' = "hydrate"
    /\ last' = NoLast
    /\ UNCHANGED <<n_req, m, page_type, all_urls, extra, extra_resources,
                   chunked_urls, tasks, resources, batches, error, rounds,
                   raised_in, listing_failed, dropped, cursorVars, bucketVars,
                   otherVars, seed, resumes, earlier, run>>

\* lines 333-343: the next chunk and the launch of its gather
HydrateFetch ==
    /\ pc = "hydrate"
    /\ urls # <<>>
    /\ chunked_urls' = Split(urls, m).chunk
    /\ urls' = Split(urls, m).rest
    /\ tasks' = [i \in 1..Len(chunked_urls') |-> NewTask(chunked_urls'[i])]
    /\ pc' = "hydration_gather"
    /\ UNCHANGED <<n_req, m, page_type, all_urls, extra, extra_resources,
                   resources, batches, error, discovered, rounds, raised_in,
                   listing_failed, dropped, cursorVars, bucketVars,
                   otherVars, ghostVars>>

\* _async_bridge, lines 108-113, first fetch of a link: the detail page
HydrateDetail(i) ==
    /\ pc = "hydration_gather"
    /\ tasks[i].st = "pending"
    /\ \E primary \in Primaries, fallback \in Fallbacks :
       LET r == GetUrl(primary, fallback, HydratePropagate)
       IN  tasks' = [tasks EXCEPT ![i].st = IF r = "raise" THEN "raised" ELSE "second",
                                  ![i].r0 = r]
    /\ UNCHANGED <<pc, n_req, m, page_type, all_urls, extra, extra_resources,
                   urls, chunked_urls, resources, batches, error, discovered,
                   rounds, raised_in, listing_failed, dropped, cursorVars, bucketVars,
                   otherVars, ghostVars>>

\* _async_bridge, second fetch of a link: the thumbnail
HydrateThumbnail(i) ==
    /\ pc = "hydration_gather"
    /\ tasks[i].st = "second"
    /\ \E primary \in Primaries, fallback \in Fallbacks :
       LET r == GetUrl(primary, fallback, HydratePropagate)
       IN  tasks' = [tasks EXCEPT ![i].st = IF r = "raise" THEN "raised" ELSE "done",
                                  ![i].r1 = r]
    /\ UNCHANGED <<pc, n_req, m, page_type, all_urls, extra, extra_resources,
                   urls, chunked_urls, resources, batches, error, discovered,
                   rounds, raised_in, listing_failed, dropped, cursorVars, bucketVars,
                   otherVars, ghostVars>>

\* faulty variant: the loop goes on to the next chunk without yielding
NextChunkAtOnce == "hydrate"
\* line 364: the generator is suspended at its yield
AfterYield == "yielded"

\* faulty variant: an empty batch held back
YieldsUnlessEmpty(articles) == articles # <<>>
\* line 364: the batch is yielded whatever it holds
Yields(articles) == TRUE

\* lines 345-364: the gather returned; read the detail pages of the links
\* with both resources, build the batch and yield it
YieldBatch ==
    /\ pc = "hydration_gather"
    /\ GatherDone(tasks)
    /\ \E texts \in [1..Len(tasks) -> Texts] :
       LET read == [i \in 1..Len(tasks) |->
                       [tasks[i] EXCEPT !.text =
                           IF tasks[i].r0 = "resource" /\ tasks[i].r1 = "resource"
                           THEN texts[i] ELSE NoText]]
           articles == Articles(chunked_urls, read)
       IN  /\ tasks' = read
           /\ batches' = IF Yields(articles) THEN Append(batches, articles)
                         ELSE batches
           /\ dropped' = dropped + (Len(chunked_urls) - Len(articles))
           /\ pc' = IF Yields(articles) THEN AfterYield ELSE "hydrate"
    /\ UNCHANGED <<n_req, m, page_type, all_urls, extra, extra_resources, urls,
                   chunked_urls, resources, error, discovered, rounds,
                   raised_in, listing_failed, cursorVars, bucketVars,
                   otherVars, ghostVars>>

\* the caller asks the generator for the next batch
Resume ==
    /\ pc = "yielded"
    /\ pc' = "hydrate"
    /\ resumes' = resumes + 1
    /\ UNCHANGED <<n_req, m, page_type, all_urls, extra, extra_resources, urls,
                   chunked_urls, tasks, resources, batches, error, discovered,
                   rounds, raised_in, listing_failed, dropped, cursorVars,
                   bucketVars, otherVars, seed, last, earlier, run>>

\* faulty variant: the generator goes back for more links when its chunks run out
BackToDiscovery == "discover"
\* line 333: the while loop ends and the generator returns
AfterChunks == "done"

\* line 333 exits the loop: the generator returns
Finish ==
    /\ pc = "hydrate"
    /\ urls = <<>>
    /\ pc' = AfterChunks
    /\ UNCHANGED <<n_req, m, page_type, all_urls, extra, extra_resources, urls,
                   chunked_urls, tasks, resources, batches, error, discovered,
                   rounds, raised_in, listing_failed, dropped, cursorVars, bucketVars,
                   otherVars, ghostVars>>

Init == RunInit /\ CursorIdle /\ BucketIdle /\ OtherIdle

Next ==
    \/ FetchOne
    \/ DiscoverFetch
    \/ \E i \in 1..3 : DiscoverResolve(i)
    \/ GatherRaise
    \/ DiscoverGathered
    \/ ReduceResource
    \/ MixExtras
    \/ HydrateFetch
    \/ \E i \in 1..MaxM : i <= Len(tasks) /\ HydrateDetail(i)
    \/ \E i \in 1..MaxM : i <= Len(tasks) /\ HydrateThumbnail(i)
    \/ YieldBatch
    \/ Resume
    \/ Finish

Spec == Init /\ [][Next]_vars


(***************************************************************************)
(* Properties of a run.                                                    *)
(***************************************************************************)
Min(a, b) == IF a < b THEN a ELSE b

\* ceil(a / b) for b >= 1
CeilDiv(a, b) == (a + b - 1) \div b

Last(s) == s[Len(s)]

\* every record yielded so far, in order
Yielded == Flatten(batches)

\* the links accepted for hydration so far: the extras, then the discovered links
Accepted == extra \o (IF Phase \in {"SeedResolution", "Discovery"} THEN urls ELSE discovered)

\* the k-th chunk of the accepted links
ChunkAt(k) == SubSeq(Accepted, (k - 1) * m + 1, Min(k * m, Len(Accepted)))

\* C1: the records of all yielded batches, the seed extra included, number at
\* most N, whatever the pages held and whichever hydration fetches failed.
C1_TotalAtMostN == Len(Yielded) <= n_req

C1_Witness ==
    /\ pc = "done"
    /\ extra # <<>>
    /\ n_req = MaxN
    /\ Len(Yielded) = n_req

\* C2: when no record was dropped, every batch but the last has exactly M
\* records, and once the stream has ended the last has between 1 and M and the
\* sizes sum to N.
C2_BatchSizes ==
    dropped = 0 =>
        /\ \A k \in 1..Len(batches) :
              \/ Len(batches[k]) = m
              \/ k = Len(batches) /\ urls = <<>> /\ Len(batches[k]) \in 1..m
        /\ pc = "done" => Len(Yielded) = n_req

C2_Witness ==
    /\ pc = "done"
    /\ dropped = 0
    /\ m = 2
    /\ n_req = 3
    /\ Len(batches) = 2
    /\ Len(batches[1]) = 2
    /\ Len(batches[2]) = 1

\* C3: no two links accepted for hydration, the seed extra and the discovered
\* links together, have the same article URL.
C3_NoDuplicateAccepted == NoDup(Accepted)

\* C4: a discovery loop that has found no new unique link stops with a fatal
\* error once its iterations exceed the fail-safe bound: it is never found
\* still discovering after more iterations than the bound.
C4_FailSafeStops ==
    (Phase = "Discovery" /\ urls = <<>>) => rounds <= FailSafeBound

\* C5: once a seed or listing fetch has failed on both transports, the run
\* has yielded no batch, it is raising (the gather holds the raised task) or
\* has raised the transport error, and it yields nothing afterwards.
C5_FatalFetchRaisesBeforeAnyBatch ==
    listing_failed =>
        /\ batches = <<>>
        /\ \/ pc = "fatal" /\ error = "transport"
           \/ pc = "discovery_gather" /\ \E i \in 1..Len(tasks) : tasks[i].st = "raised"

C5_Witness ==
    /\ listing_failed
    /\ pc = "fatal"
    /\ raised_in = "Discovery"
    /\ rounds = 2

\* C6: a failed detail or thumbnail fetch never aborts the run: no error is
\* raised in hydration, the batch yielded for a chunk holds exactly the links
\* whose two fetches succeeded and whose text is not blank, every link of the
\* chunk had both fetches resolved, and a finished run yielded one batch per
\* chunk.
C6_DegradeNeverAborts ==
    /\ pc = "fatal" => raised_in \in {"SeedResolution", "Discovery"}
    /\ pc = "yielded" =>
          /\ \A i \in 1..Len(tasks) :
                tasks[i].r0 # "pending" /\ tasks[i].r1 # "pending"
          /\ Len(Last(batches)) =
                Cardinality({i \in 1..Len(tasks) :
                    tasks[i].r0 = "resource" /\ tasks[i].r1 = "resource"
                    /\ HasText(tasks[i].text)})
          /\ \A i \in 1..Len(tasks) :
                (tasks[i].r0 = "none" \/ tasks[i].r1 = "none")
                    => Len(Last(batches)) < Len(chunked_urls)
    /\ pc = "done" => Len(batches) = CeilDiv(Len(Accepted), m)

C6_Witness ==
    /\ pc = "done"
    /\ m = 2
    /\ Len(batches) = 2
    /\ Len(batches[1]) = 1
    /\ Len(batches[2]) = 1
    /\ dropped = 1

\* C7: each batch is a subsequence of its chunk of (extras, then discovered
\* links in discovery order), so the concatenation of the batches is a
\* subsequence of that list, whatever order the fetches resolved in.
C7_DiscoveryOrder ==
    /\ \A k \in 1..Len(batches) : IsSubseq(batches[k], ChunkAt(k))
    /\ IsSubseq(Yielded, Accepted)

C7_Witness ==
    /\ pc = "done"
    /\ extra # <<>>
    /\ Len(batches) = 2
    /\ Len(Yielded) = 3
    /\ Yielded[1] = SeedUrl
    /\ Yielded[2] # SeedUrl
    /\ Yielded[3] # Yielded[2]


(***************************************************************************)
(* A cursor on its own: next() and iter() in any order.                    *)
(***************************************************************************)
RunIdle ==
    /\ pc = "idle"
    /\ n_req = 1
    /\ m = 1
    /\ page_type = None
    /\ all_urls = {}
    /\ extra = <<>>
    /\ extra_resources = <<>>
    /\ urls = <<>>
    /\ chunked_urls = <<>>
    /\ tasks = <<>>
    /\ resources = <<>>
    /\ batches = <<>>
    /\ error = None
    /\ discovered = <<>>
    /\ rounds = 0
    /\ raised_in = None
    /\ listing_failed = FALSE
    /\ dropped = 0
    /\ seed = NoSeed
    /\ resumes = 0
    /\ last = NoLast
    /\ earlier = {}
    /\ run = 1

Iterators ==
    {ArticleURLIterator(e, c) : e \in Ids, c \in Ids}
    \cup {PageTypeURLIterator(u, pt, b) :
            u \in Ids, pt \in {CATAGORY, SEARCH}, b \in BOOLEAN}

\* URLIterator.__init__
CursorInit ==
    /\ iterator \in Iterators
    /\ increment = BaseIncrement
    /\ descs = <<>>
    /\ restarted = FALSE

\* __next__ of either cursor
CursorNext ==
    /\ Len(descs) < MaxNext
    /\ increment' = increment + 1
    /\ descs' = Append(descs, Descriptor(iterator, increment'))
    /\ UNCHANGED <<iterator, restarted, runVars, bucketVars, otherVars>>

\* URLIterator.__iter__
CursorIter ==
    /\ increment' = BaseIncrement
    /\ restarted' = (restarted \/ descs # <<>>)
    /\ UNCHANGED <<iterator, descs, runVars, bucketVars, otherVars>>

InitCursor == RunIdle /\ CursorInit /\ BucketIdle /\ OtherIdle

NextCursor == CursorNext \/ CursorIter

SpecCursor == InitCursor /\ [][NextCursor]_vars

(***************************************************************************)
(* One bucket and the coroutines that acquire it.  A step of a coroutine   *)
(* runs from one await that suspends to the next: __aenter__ up to its     *)
(* asyncio.sleep, or through the decrement when throttle has nothing to    *)
(* wait for; after a sleep, resize_bucket, the loop test and, when the     *)
(* loop ends, the decrement.  The clock never runs backwards, and a sleep  *)
(* lasts at least the time asked for.                                      *)
(***************************************************************************)
\* one token
One == Second

\* faulty variant: no token added for the time that has passed
ResizedNoRefill(size, span, r, cap) == size
\* resize_bucket, lines 88-91
Resized(size, span, r, cap) ==
    IF size + span * r < cap * One THEN size + span * r ELSE cap * One

\* resize_bucket at clock t: the new current_bucket_size
ResizeBucket(t) ==
    IF bucket_resized_at # NoTime
    THEN Resized(current_bucket_size, t - bucket_resized_at, rate, max_bucket_size)
    ELSE current_bucket_size

\* throttle's loop test, line 96, on entry
Throttled(size) == size < One

\* faulty variant: throttle sleeps once and does not test again
ThrottledOnce(size) == FALSE
\* throttle's loop test, line 96, after a sleep
ThrottledAgain(size) == size < One

\* faulty variant: the shortfall slept without the division by the rate
SnoozeNoRate(size, r) == One - size
\* lines 97-99: snooze_time in ticks, rounded up to the tick the sleep ends in
SnoozeTime(size, r) == ((One - size) + r - 1) \div r

\* TokenBucket.__init__ with valid arguments
BucketInit ==
    /\ max_bucket_size \in 1..MaxCapacity
    /\ rate \in 1..MaxRate
    /\ current_bucket_size = max_bucket_size * One
    /\ bucket_resized_at = NoTime
    /\ now = 0
    /\ caller = [c \in Callers |-> Idle]
    /\ entries = 0
    /\ first_at = NoTime

\* __aenter__, lines 106-108, to its first suspension or through the decrement
Enter(c) ==
    /\ caller[c].st = "idle"
    /\ entries < MaxEntries
    /\ entries' = entries + 1
    /\ first_at' = IF first_at = NoTime THEN now ELSE first_at
    /\ bucket_resized_at' = now
    /\ LET size == ResizeBucket(now)
       IN  IF Throttled(size)
           THEN /\ current_bucket_size' = size
                /\ caller' = [caller EXCEPT ![c] =
                      [st |-> "sleeping", until |-> now + SnoozeTime(size, rate),
                       ord |-> entries', at |-> now,
                       nap |-> SnoozeTime(size, rate), naps |-> 1]]
           ELSE /\ current_bucket_size' = size - One
                /\ caller' = [caller EXCEPT ![c] =
                      [st |-> "inside", until |-> 0, ord |-> entries',
                       at |-> now, nap |-> 0, naps |-> 0]]
    /\ UNCHANGED <<max_bucket_size, rate, now, runVars, cursorVars, otherVars>>

\* throttle, lines 101-103 and the loop test, then line 108: the sleep is over
Wake(c) ==
    /\ caller[c].st = "sleeping"
    /\ now >= caller[c].until
    /\ bucket_resized_at' = now
    /\ LET size == ResizeBucket(now)
       IN  IF ThrottledAgain(size)
           THEN /\ current_bucket_size' = size
                /\ caller' = [caller EXCEPT
                      ![c].until = now + SnoozeTime(size, rate),
                      ![c].naps = IF @ < 2 THEN @ + 1 ELSE @]
           ELSE /\ current_bucket_size' = size - One
                /\ caller' = [caller EXCEPT ![c].st = "inside", ![c].until = 0]
    /\ UNCHANGED <<max_bucket_size, rate, now, entries, first_at, runVars,
                   cursorVars, otherVars>>

\* faulty variant: the exit gives the token back
ReleasedWithToken(size) == size + One
\* current_bucket_size after __aexit__, whose body is pass
Released(size) == size

\* __aexit__, lines 110-112, after the body of the async with has ended,
\* by returning or by raising
Exit(c) ==
    /\ caller[c].st = "inside"
    /\ caller' = [caller EXCEPT ![c] = Idle]
    /\ current_bucket_size' = Released(current_bucket_size)
    /\ UNCHANGED <<max_bucket_size, rate, bucket_resized_at,
                   now, entries, first_at, runVars, cursorVars, otherVars>>

\* time passes
Tick ==
    /\ now < MaxTime
    /\ now' = now + 1
    /\ UNCHANGED <<max_bucket_size, rate, current_bucket_size, bucket_resized_at,
                   caller, entries, first_at, runVars, cursorVars, otherVars>>

InitBucket == RunIdle /\ CursorIdle /\ BucketInit /\ OtherIdle

NextBucket ==
    \/ \E c \in Callers : Enter(c)
    \/ \E c \in Callers : Wake(c)
    \/ \E c \in Callers : Exit(c)
    \/ Tick

SpecBucket == InitBucket /\ [][NextBucket]_vars


(***************************************************************************)
(* Properties of the cursor.                                               *)
(***************************************************************************)
\* C8: on an article-pagination cursor driven by next() calls alone, the first
\* descriptor carries the entity id and no category id, and every later one
\* carries the category id and no entity id.
C8_EidThenCid ==
    (iterator.kind = "article" /\ ~restarted) =>
        \A k \in 1..Len(descs) :
            IF k = 1
            THEN descs[k].eid = iterator.eid /\ descs[k].cid = None
            ELSE descs[k].cid = iterator.cid /\ descs[k].eid = None

C8_Witness ==
    /\ iterator.kind = "article"
    /\ iterator.eid # iterator.cid
    /\ ~restarted
    /\ Len(descs) = MaxNext

(***************************************************************************)
(* Properties of the token bucket.                                         *)
(***************************************************************************)
\* C9: of the acquisitions on a fresh bucket of capacity C and rate R, the
\* first C never suspend; the (C+1)-th, issued at the instant of the first,
\* suspends for 1/R seconds (rounded up to a tick) and is not through before
\* that time has passed; with no further acquisition it suspends only once.
C9_BurstThenDelay ==
    \A c \in Callers :
        caller[c].st # "idle" =>
            /\ caller[c].ord <= max_bucket_size =>
                  caller[c].st = "inside" /\ caller[c].naps = 0
            /\ (caller[c].ord = max_bucket_size + 1 /\ caller[c].at = first_at) =>
                  /\ caller[c].naps >= 1
                  /\ caller[c].nap = CeilDiv(Second, rate)
                  /\ caller[c].st = "inside" => now >= caller[c].at + caller[c].nap
                  /\ entries = max_bucket_size + 1 => caller[c].naps = 1

C9_Witness ==
    \E c \in Callers :
        /\ max_bucket_size = MaxCapacity
        /\ rate = 1
        /\ caller[c].ord = max_bucket_size + 1
        /\ caller[c].at = first_at
        /\ caller[c].st = "inside"
        /\ now = caller[c].at + Second

\* C10: the bucket's tokens stay between 0 and the capacity in every state,
\* however many coroutines are suspended in throttle at the same time: a
\* token is never taken twice.
C10_TokensInRange ==
    /\ 0 <= current_bucket_size
    /\ current_bucket_size <= max_bucket_size * One

C10_Witness ==
    \E c, d \in Callers :
        /\ c # d
        /\ caller[c].st = "inside"
        /\ caller[c].naps = 1
        /\ caller[d].st = "sleeping"
        /\ caller[d].naps = 2
        /\ caller[c].at = caller[d].at
        /\ current_bucket_size = 0


(***************************************************************************)
(* TokenBucket(max_bucket_size, rate): the constructor on any pair of      *)
(* numbers.  A number is its Python type and its value; the floats         *)
(* taken are the whole ones, which is all the type test needs.             *)
(***************************************************************************)
Numbers(bound) == [type : {"int", "float"}, v : (0 - bound)..bound]

\* isinstance(a, int)
IsInt(a) == a.type = "int"

\* faulty variant: the size tested for its sign alone
SizeRejectedBySign(size) == size.v <= 0
\* line 68
SizeRejected(size) == size.v <= 0 \/ ~IsInt(size)

\* line 74
RateRejected(r) == r.v <= 0

\* no bucket object yet
NoBucket ==
    /\ max_bucket_size = 0
    /\ rate = 0
    /\ current_bucket_size = 0
    /\ bucket_resized_at = NoTime
    /\ now = 0
    /\ caller = [c \in Callers |-> Idle]
    /\ entries = 0
    /\ first_at = NoTime

CtorInit ==
    /\ args \in [size : Numbers(MaxCapacity), rate : Numbers(MaxRate)]
    /\ made = None

\* TokenBucket.__init__, lines 67-79
New ==
    /\ made = None
    /\ IF SizeRejected(args.size) \/ RateRejected(args.rate)
       THEN /\ made' = "TokenBucketError"
            /\ UNCHANGED <<max_bucket_size, rate, current_bucket_size,
                           bucket_resized_at>>
       ELSE /\ made' = "bucket"
            /\ max_bucket_size' = args.size.v
            /\ rate' = args.rate.v
            /\ current_bucket_size' = args.size.v * One
            /\ bucket_resized_at' = NoTime
    /\ UNCHANGED <<args, now, caller, entries, first_at, runVars, cursorVars,
                   fetchVars>>

InitNew == RunIdle /\ CursorIdle /\ NoBucket /\ CtorInit /\ FetchIdle

NextNew == New

SpecNew == InitNew /\ [][NextNew]_vars

\* C11: the constructor raises TokenBucketError exactly when the size is not
\* positive, the size is not an int, or the rate is not positive; on every
\* other pair it gives a bucket holding max_bucket_size tokens.
C11_CtorRejectsNonPositiveAndNonInt ==
    made # None =>
        /\ made = "TokenBucketError" <=>
              (args.size.v <= 0 \/ ~IsInt(args.size) \/ args.rate.v <= 0)
        /\ made = "bucket" =>
              /\ max_bucket_size = args.size.v
              /\ rate = args.rate.v
              /\ current_bucket_size = max_bucket_size * One

\* a positive size that is a float, with a positive rate, was rejected
C11_Witness ==
    /\ made = "TokenBucketError"
    /\ args.size.v > 0
    /\ ~IsInt(args.size)
    /\ args.rate.v > 0

\* C11 as stated: the constructor raises exactly when the size or the rate is
\* not positive, and gives a full bucket for every positive size and rate.
C11_CtorRejectsNonPositiveOnly ==
    made # None =>
        /\ made = "TokenBucketError" <=> (args.size.v <= 0 \/ args.rate.v <= 0)
        /\ made = "bucket" =>
              /\ max_bucket_size = args.size.v
              /\ current_bucket_size = max_bucket_size * One


(***************************************************************************)
(* One call of async_get_urls: the gather of its _async_bridge coroutines, *)
(* each running _async_get_url on its URL, or on its two URLs one after    *)
(* the other.  A step of a coroutine runs from one await that suspends to  *)
(* the next.  The fallback transport is synchronous: its request is sent   *)
(* and answered within the step that reaches it.  What a wait for a token  *)
(* lasts is SpecBucket's matter; here it ends at any time.                 *)
(***************************************************************************)
\* the three URLs a discovery round draws
Draws == 3

\* the content of the Resource returned
Payload(primary, fallback) ==
    IF PrimaryOk(primary) THEN "bytes"
    ELSE IF fallback = "200" THEN "str"
    ELSE None

\* the exception the primary request ends with
ErrorOf(primary) ==
    CASE primary = "sentinel" -> "ResourceError"
      [] primary = "error" -> "ClientError"
      [] OTHER -> None

\* faulty variant: the fallback's exception raised when there is one
RaisedOfFallback(primary, fallback) ==
    IF fallback = "exception" THEN "RequestException" ELSE ErrorOf(primary)
\* line 89: raise e
Raised(primary, fallback) == ErrorOf(primary)

\* faulty variant: the fallback tried after every primary request
TriesFallbackAlways(primary) == TRUE
\* line 74: the except clause is entered
TriesFallback(primary) == ~PrimaryOk(primary)

\* faulty variant: a semaphore one permit too large
PermitsOneMore(c) == c + 1
\* line 130: Semaphore(concurrency)
Permits(c) == c

NoResource == [kind |-> "pending", url |-> <<0, 0>>, payload |-> None]

\* a coroutine of the gather about to make the first of its len fetches
\* np, nf and nt count the primary requests, the fallback requests and the
\* tokens of the fetch under way; sent and spent count the requests and the
\* tokens of the coroutine's fetches before it
NewCoro(len) ==
    [len |-> len, k |-> 1, st |-> "acquire", primary |-> None, fallback |-> None,
     np |-> 0, nf |-> 0, nt |-> 0, sent |-> 0, spent |-> 0,
     res |-> NoResource, err |-> None, first |-> "pending"]

\* the URL coroutine t is fetching
Url(t) == <<t, coros[t].k>>

\* the fetch is inside async with semaphore
Holds(c) == c.st \in {"token1", "primary", "token2"}

\* utils.py, line 108, at the end of __aenter__: the token is taken
TakeToken(c) == [c EXCEPT !.nt = @ + 1]

\* faulty variant: the fallback request made without a token of its own
FallbackAcquiresNever(b) == FALSE
\* lines 77-78: if bucket: async with bucket
FallbackAcquires(b) == b

\* lines 64-65: the primary request is sent
SendPrimary(c) == [c EXCEPT !.st = "primary", !.np = @ + 1]

\* _async_get_url returns or raises
Leave(c, url, primary, fallback) ==
    LET r == GetUrl(primary, fallback, propagates)
    IN  [c EXCEPT !.primary = primary,
                  !.fallback = fallback,
                  !.st = IF r = "raise" THEN "raised" ELSE "returned",
                  !.res = [kind |-> r, url |-> url,
                           payload |-> Payload(primary, fallback)],
                  !.err = IF r = "raise" THEN Raised(primary, fallback) ELSE None]

FetchInit ==
    /\ call \in {"_fetch_one", "discover", "hydrate"}
    /\ concurrency \in 1..MaxConcurrency
    /\ bucket \in BOOLEAN
    /\ propagates = CASE call = "_fetch_one" -> FetchOnePropagate
                     [] call = "discover" -> DiscoverPropagate
                     [] OTHER -> HydratePropagate
    /\ coros \in CASE call = "_fetch_one" -> {<<NewCoro(1)>>}
                   [] call = "discover" -> {[t \in 1..Draws |-> NewCoro(1)]}
                   [] OTHER -> {[t \in 1..k |-> NewCoro(2)] : k \in 1..MaxM}
    /\ semaphore = Permits(concurrency)
    /\ gathered = "running"

\* line 49, and lines 54-68 up to the first await that suspends
Acquire(t) ==
    /\ gathered = "running"
    /\ coros[t].st = "acquire"
    /\ semaphore > 0
    /\ semaphore' = semaphore - 1
    /\ coros' = [coros EXCEPT ![t] =
                    IF bucket THEN [@ EXCEPT !.st = "token1"] ELSE SendPrimary(@)]
    /\ UNCHANGED <<call, concurrency, propagates, bucket, gathered, runVars,
                   cursorVars, bucketVars, ctorVars>>

\* line 63: the bucket lets the coroutine in
TokenPrimary(t) ==
    /\ gathered = "running"
    /\ coros[t].st = "token1"
    /\ coros' = [coros EXCEPT ![t] = SendPrimary(TakeToken(@))]
    /\ UNCHANGED <<call, concurrency, propagates, bucket, semaphore, gathered,
                   runVars, cursorVars, bucketVars, ctorVars>>

\* lines 64-93: the primary request ends; without a bucket the fallback runs
\* in the same step
PrimaryEnds(t) ==
    /\ gathered = "running"
    /\ coros[t].st = "primary"
    /\ \E primary \in Primaries :
       IF ~TriesFallback(primary)
       THEN /\ coros' = [coros EXCEPT ![t] = Leave(@, Url(t), primary, None)]
            /\ semaphore' = semaphore + 1
       ELSE IF FallbackAcquires(bucket)
       THEN /\ coros' = [coros EXCEPT ![t].primary = primary, ![t].st = "token2"]
            /\ UNCHANGED semaphore
       ELSE \E fallback \in Fallbacks :
            /\ coros' = [coros EXCEPT ![t] =
                            Leave([@ EXCEPT !.nf = @ + 1], Url(t), primary, fallback)]
            /\ semaphore' = semaphore + 1
    /\ UNCHANGED <<call, concurrency, propagates, bucket, gathered, runVars,
                   cursorVars, bucketVars, ctorVars>>

\* lines 78-93: the bucket lets the coroutine in and the fallback runs
TokenFallback(t) ==
    /\ gathered = "running"
    /\ coros[t].st = "token2"
    /\ \E fallback \in Fallbacks :
       coros' = [coros EXCEPT ![t] =
                    Leave([TakeToken(@) EXCEPT !.nf = @ + 1], Url(t), @.primary,
                          fallback)]
    /\ semaphore' = semaphore + 1
    /\ UNCHANGED <<call, concurrency, propagates, bucket, gathered, runVars,
                   cursorVars, bucketVars, ctorVars>>

\* _async_bridge, lines 105-119: the next URL of the coroutine, or its return
Bridge(t) ==
    /\ gathered = "running"
    /\ coros[t].st = "returned"
    /\ coros' = [coros EXCEPT ![t] =
                    IF @.k < @.len
                    THEN [NewCoro(@.len) EXCEPT
                             !.k = coros[t].k + 1,
                             !.first = coros[t].res.kind,
                             !.sent = coros[t].sent + coros[t].np + coros[t].nf,
                             !.spent = coros[t].spent + coros[t].nt]
                    ELSE [@ EXCEPT !.st = "done"]]
    /\ UNCHANGED <<call, concurrency, propagates, bucket, semaphore, gathered,
                   runVars, cursorVars, bucketVars, ctorVars>>

\* line 139: every coroutine has returned
GatherReturns ==
    /\ gathered = "running"
    /\ \A t \in DOMAIN coros : coros[t].st = "done"
    /\ gathered' = "returned"
    /\ UNCHANGED <<call, concurrency, propagates, bucket, semaphore, coros,
                   runVars, cursorVars, bucketVars, ctorVars>>

\* line 139: a coroutine raised; the exception leaves asyncio.run, which
\* cancels the coroutines still running
GatherFails ==
    /\ gathered = "running"
    /\ \E t \in DOMAIN coros : coros[t].st = "raised"
    /\ gathered' = "raised"
    /\ coros' = [t \in DOMAIN coros |->
                    IF coros[t].st \in {"done", "raised"} THEN coros[t]
                    ELSE [coros[t] EXCEPT !.st = "cancelled"]]
    /\ semaphore' = semaphore + Cardinality({t \in DOMAIN coros : Holds(coros[t])})
    /\ UNCHANGED <<call, concurrency, propagates, bucket, runVars, cursorVars,
                   bucketVars, ctorVars>>

InitFetch == RunIdle /\ CursorIdle /\ BucketIdle /\ CtorIdle /\ FetchInit

NextFetch ==
    \/ \E t \in DOMAIN coros : Acquire(t)
    \/ \E t \in DOMAIN coros : TokenPrimary(t)
    \/ \E t \in DOMAIN coros : PrimaryEnds(t)
    \/ \E t \in DOMAIN coros : TokenFallback(t)
    \/ \E t \in DOMAIN coros : Bridge(t)
    \/ GatherReturns
    \/ GatherFails

SpecFetch == InitFetch /\ [][NextFetch]_vars


(***************************************************************************)
(* Properties of a fetch.                                                  *)
(***************************************************************************)
\* _async_get_url has returned or raised for the coroutine's current URL
Left(c) == c.res.kind # "pending"

Holders == {t \in DOMAIN coros : Holds(coros[t])}

\* C12: a fetch whose primary request failed and whose fallback request
\* answered 200 raises nothing and returns a resource with the URL asked
\* for and a payload of the kind a primary success returns, bytes.
C12_FallbackSuccessSameShape ==
    \A t \in DOMAIN coros :
        LET c == coros[t]
        IN  (Left(c) /\ ~PrimaryOk(c.primary) /\ c.fallback = "200") =>
                /\ c.st # "raised"
                /\ c.res = [kind |-> "resource", url |-> Url(t),
                            payload |-> Payload("ok", None)]
                /\ c.res.payload = "bytes"

\* C17: the fetches inside async with semaphore, with a request in flight or
\* waiting for a token, are never more than concurrency.
C17_PermitsBounded == Cardinality(Holders) <= concurrency

\* every permit is held, one holder waits for a token, and a coroutine waits
\* for a permit
C17_Witness ==
    /\ Cardinality(Holders) = concurrency
    /\ \E t \in Holders : coros[t].st \in {"token1", "token2"}
    /\ \E t \in DOMAIN coros : coros[t].st = "acquire"

\* C19: a fetch sends at most one primary and at most one fallback request,
\* the fallback only after its primary request has failed, and once the
\* fallback has answered the fetch is over.
C19_OnePrimaryOneFallback ==
    \A t \in DOMAIN coros :
        LET c == coros[t]
        IN  /\ c.np <= 1
            /\ c.nf <= 1
            /\ c.nf = 1 => (c.np = 1 /\ c.primary \in Primaries /\ ~PrimaryOk(c.primary))
            /\ c.fallback # None => (c.nf = 1 /\ Left(c))

\* a fetch sent both requests and is over
C19_Witness ==
    \E t \in DOMAIN coros :
        /\ coros[t].np = 1
        /\ coros[t].nf = 1
        /\ coros[t].fallback \in Fallbacks
        /\ Left(coros[t])

\* C20: a fetch whose primary and fallback requests both failed raises the
\* primary request's exception when propagate is set, whatever the fallback
\* raised, and returns None without raising when it is not.
C20_BothFailRaiseOriginalOrNone ==
    \A t \in DOMAIN coros :
        LET c == coros[t]
        IN  (Left(c) /\ FetchFailed(c.primary, c.fallback)) =>
                IF propagates
                THEN /\ c.st = "raised"
                     /\ c.err = ErrorOf(c.primary)
                     /\ c.err \in {"ResourceError", "ClientError"}
                ELSE /\ c.st # "raised"
                     /\ c.res.kind = "none"
                     /\ c.err = None

\* the primary failed, the fallback raised, and the fetch raised
C20_Witness ==
    \E t \in DOMAIN coros :
        /\ coros[t].st = "raised"
        /\ ~PrimaryOk(coros[t].primary)
        /\ coros[t].fallback = "exception"


(***************************************************************************)
(* Properties of the seed resolution.                                      *)
(***************************************************************************)
\* execute resolves a seed for these page types (line 395)
SeedModes == {TREND, LIST}

\* C14: in TREND and LIST mode _fetch_one fetches the seed page once, with
\* propagate set; when the page has no metadata the run ends in ResourceError,
\* raised before the cursor produced any listing request, before any
\* discovery round and before any batch.
C14_SeedFetchedOnceFatalWithoutMetadata ==
    (page_type \in SeedModes /\ pc # "start") =>
        /\ seed.fetches = 1
        /\ seed.propagate
        /\ (seed.got = "resource" /\ ~seed.metadata) =>
              /\ pc = "fatal"
              /\ error = "resource"
              /\ raised_in = "SeedResolution"
              /\ descs = <<>>
              /\ rounds = 0
              /\ batches = <<>>

\* the seed page came back without metadata and the run ended there
C14_Witness ==
    /\ page_type \in SeedModes
    /\ seed.fetches = 1
    /\ seed.got = "resource"
    /\ ~seed.metadata
    /\ pc = "fatal"
    /\ error = "resource"

\* the seed resolution is over and gave a cursor
SeedResolved == page_type \in SeedModes /\ seed.got = "resource" /\ seed.metadata

\* the first chunk has been yielded and its tasks are still at hand
FirstBatchYielded == pc = "yielded" /\ Len(batches) = 1

\* when the seed is queued it heads the first chunk, and its record heads the
\* first batch unless the hydration dropped it
SeedHeadsFirstBatch ==
    (extra # <<>> /\ FirstBatchYielded) =>
        /\ chunked_urls[1] = SeedUrl
        /\ Kept(tasks[1]) => (batches[1] # <<>> /\ batches[1][1] = SeedUrl)

\* C15: in TREND mode the seed is queued as extra exactly when its page has a
\* thumbnail and its URL is not in the dedup set, and then heads the first
\* batch unless dropped; in LIST mode no extra is queued.
C15_SeedExtraInTrendMode ==
    SeedResolved =>
        /\ extra = IF page_type = TREND /\ seed.image /\ ~seed.seen
                   THEN <<SeedUrl>> ELSE <<>>
        /\ SeedHeadsFirstBatch

\* the seed was queued and its record heads the first batch
C15_Witness ==
    /\ SeedResolved
    /\ extra = <<SeedUrl>>
    /\ FirstBatchYielded
    /\ Kept(tasks[1])
    /\ Len(batches[1]) = 2
    /\ batches[1][1] = SeedUrl

\* C15 as stated: in every mode with a seed resolution the seed is queued as
\* extra exactly when its page has a thumbnail and its URL is not in the
\* dedup set, and then heads the first batch unless dropped.
C15_SeedExtraInEverySeedMode ==
    SeedResolved =>
        /\ extra = IF seed.image /\ ~seed.seen THEN <<SeedUrl>> ELSE <<>>
        /\ SeedHeadsFirstBatch


(***************************************************************************)
(* Properties of the hydration loop.                                       *)
(***************************************************************************)
\* hydration chunks whose gather has been launched
ChunksStarted == Len(batches) + (IF pc = "hydration_gather" THEN 1 ELSE 0)

\* C16: the gather of chunk k+1 is launched only after batch k was yielded and
\* the caller asked for the next one; while the generator is suspended at its
\* yield every fetch of the chunk is over and none is under way.
C16_Backpressure ==
    /\ ChunksStarted <= resumes + 1
    /\ resumes <= Len(batches)
    /\ pc = "yielded" =>
          /\ resumes = Len(batches) - 1
          /\ \A i \in 1..Len(tasks) : tasks[i].st = "done"

\* the caller took the first batch and asked again; the second chunk is in flight
C16_Witness ==
    /\ pc = "hydration_gather"
    /\ Len(batches) = 1
    /\ resumes = 1
    /\ \E i \in 1..Len(tasks) : tasks[i].st = "pending"


(***************************************************************************)
(* Properties of the discovery loop.                                       *)
(***************************************************************************)
\* C18: a pass over a fetched page leaves urls as it was, followed by the
\* page's links that were not in the dedup set when examined, in page order,
\* up to the quota n: a unique link is left out only when the quota is full.
C18_UniqueLinksUntilQuota ==
    last.set => urls = last.want


(***************************************************************************)
(* Runs of execute() one after the other on one dedup set, as the          *)
(* assortment command makes them: the next run starts when the generator   *)
(* of the one before has returned or raised.                               *)
(***************************************************************************)
\* the links the run accepted: its extra and what its discovery loop appended
AcceptedByRun == extra \o (IF pc = "fatal" THEN urls ELSE discovered)

\* console.py, lines 460-469: the next item of the for loop
NextRun ==
    /\ pc \in {"done", "fatal"}
    /\ run < MaxRuns
    /\ run' = run + 1
    /\ earlier' = earlier \cup Range(AcceptedByRun)
    /\ pc' = "start"
    /\ n_req' \in 1..MaxN
    /\ m' \in 1..MaxM
    /\ page_type' \in PageTypes
    /\ extra' = <<>>
    /\ extra_resources' = <<>>
    /\ urls' = <<>>
    /\ chunked_urls' = <<>>
    /\ tasks' = <<>>
    /\ resources' = <<>>
    /\ batches' = <<>>
    /\ error' = None
    /\ discovered' = <<>>
    /\ rounds' = 0
    /\ raised_in' = None
    /\ listing_failed' = FALSE
    /\ dropped' = 0
    /\ seed' = NoSeed
    /\ resumes' = 0
    /\ last' = NoLast
    /\ iterator' = None
    /\ increment' = 0
    /\ descs' = <<>>
    /\ restarted' = FALSE
    /\ UNCHANGED <<all_urls, bucketVars, otherVars>>

NextRuns == Next \/ NextRun

SpecRuns == Init /\ [][NextRuns]_vars

\* C13: no record a later run yields has the article URL of a link an earlier
\* run on the same dedup set accepted, as its seed extra or from a page.
C13_LaterRunsYieldNothingAcceptedEarlier ==
    run > 1 => Range(Yielded) \cap earlier = {}


(***************************************************************************)
(* More properties of a fetch.                                             *)
(***************************************************************************)
\* C21: a 2xx primary answer whose payload holds the empty-success sentinel is
\* never returned: the fetch sends its one fallback request and ends as it
\* would after a transport error of the primary, with the fallback's payload,
\* with ResourceError raised, or with None.
C21_SentinelHandledAsFailure ==
    \A t \in DOMAIN coros :
        LET c == coros[t]
        IN  (Left(c) /\ c.primary = "sentinel") =>
                /\ c.res.payload # "bytes"
                /\ c.nf = 1
                /\ c.fallback \in Fallbacks
                /\ c.res.kind = GetUrl("error", c.fallback, propagates)
                /\ c.res.payload = Payload("error", c.fallback)
                /\ c.st = "raised" => c.err = "ResourceError"

\* a fetch met the sentinel, tried the fallback and came back empty-handed
C21_Witness ==
    \E t \in DOMAIN coros :
        /\ Left(coros[t])
        /\ coros[t].primary = "sentinel"
        /\ coros[t].nf = 1
        /\ coros[t].res.kind \in {"none", "raise"}


(***************************************************************************)
(* More properties of the hydration loop.                                  *)
(***************************************************************************)
\* the places of the chunk whose two fetches gave a resource and whose detail
\* page has a title, a description or metadata
Hydrated ==
    {i \in 1..Len(chunked_urls) :
        /\ tasks[i].r0 = "resource"
        /\ tasks[i].r1 = "resource"
        /\ (tasks[i].text.title \/ tasks[i].text.description \/ tasks[i].text.metadata)}

\* C22: the batch yielded for a chunk holds the links of the chunk whose
\* detail page and thumbnail were both fetched and whose detail has a title,
\* a description or metadata: all of them, no other, in chunk order.
C22_BatchIsHydratedLinks ==
    pc = "yielded" =>
        /\ Len(Last(batches)) = Cardinality(Hydrated)
        /\ \A i \in Hydrated :
              Last(batches)[Cardinality({j \in Hydrated : j <= i})] = chunked_urls[i]

\* a chunk of two: one link kept on a description alone, the other dropped
\* for a detail page that came back with nothing to read
C22_Witness ==
    /\ pc = "yielded"
    /\ Len(chunked_urls) = 2
    /\ Cardinality(Hydrated) = 1
    /\ \E i \in Hydrated :
          /\ ~tasks[i].text.title
          /\ ~tasks[i].text.metadata
    /\ \E i \in 1..2 :
          /\ tasks[i].r0 = "resource"
          /\ tasks[i].r1 = "resource"
          /\ tasks[i].text = NoText


(***************************************************************************)
(* The phases of a run.                                                    *)
(***************************************************************************)
PhaseRank ==
    CASE Phase = "SeedResolution" -> 1
      [] Phase = "Discovery" -> 2
      [] Phase = "Hydration" -> 3
      [] Phase = "Done" -> 4
      [] OTHER -> 5

\* a step of the run in keeping with the order of the phases
InPhaseOrder ==
    /\ Phase' = "Fatal" \/ PhaseRank' \in {PhaseRank, PhaseRank + 1}
    /\ (Phase = "Discovery" /\ Phase' = "Hydration") =>
          \A i \in 1..Len(tasks) : tasks[i].st = "done"
    /\ Phase \in {"Hydration", "Done"} =>
          UNCHANGED <<descs, rounds, extra_resources, resources>>
    /\ Phase = "Fatal" => UNCHANGED <<pc, batches, tasks, descs, rounds>>

\* C23: every step of a run stays in its phase or moves to the next of
\* SeedResolution, Discovery, Hydration, Done, or to Fatal; hydration starts
\* with every discovery fetch resolved; no page is drawn or reduced once
\* hydration has begun; a run in Fatal yields no batch and launches nothing.
C23_PhasesInOrder == [][InPhaseOrder]_vars

\* a run went through two discovery rounds and two chunks to its end
C23_Witness ==
    /\ pc = "done"
    /\ rounds >= 2
    /\ Len(batches) >= 2
    /\ descs # <<>>


(***************************************************************************)
(* The barrier of a hydration chunk.                                       *)
(***************************************************************************)
\* both fetches of the link at place i of the chunk are over
BothResolved(i) ==
    /\ tasks[i].st = "done"
    /\ tasks[i].r0 \in {"resource", "none"}
    /\ tasks[i].r1 \in {"resource", "none"}

\* C24: a batch is built and yielded only when both fetches of every link of
\* its chunk have resolved, to a resource or to None: while a fetch of the
\* chunk is pending the chunk's batch is not among the yielded ones.
C24_BatchBarrier ==
    /\ pc = "yielded" =>
          /\ Len(tasks) = Len(chunked_urls)
          /\ \A i \in 1..Len(tasks) : BothResolved(i)
    /\ (pc = "hydration_gather" /\ \E i \in 1..Len(tasks) : ~BothResolved(i)) =>
          /\ Len(batches) = resumes
          /\ IsSubseq(Yielded, Take(Accepted, Len(Accepted) - Len(urls) - Len(chunked_urls)))

\* a chunk of two was yielded after one link had come back whole and the
\* other with a fetch degraded to None
C24_Witness ==
    /\ pc = "yielded"
    /\ Len(tasks) = 2
    /\ \E i, j \in 1..2 :
          /\ tasks[i].r0 = "resource" /\ tasks[i].r1 = "resource"
          /\ tasks[j].r1 = "none"


(***************************************************************************)
(* The two fetches of a link.                                              *)
(***************************************************************************)
\* the coroutine has called _async_get_url for its j-th URL
Launched(c, j) == c.k >= j

\* the request of the coroutine's first URL has been sent and not answered
DetailInFlight(c) == c.len = 2 /\ c.k = 1 /\ c.st = "primary"

\* C25: in a hydration chunk the thumbnail fetch of a link is launched with
\* its detail fetch and does not wait for it: whenever the detail request is
\* in flight the thumbnail fetch has been launched too.
C25_ThumbnailLaunchedWithDetail ==
    \A t \in DOMAIN coros : DetailInFlight(coros[t]) => Launched(coros[t], 2)

(***************************************************************************)
(* The page index of a cursor.                                             *)
(***************************************************************************)
\* a step of __next__: it adds one descriptor
IsNext == Len(descs') = Len(descs) + 1

\* a step of __iter__: it adds no descriptor
IsIter == descs' = descs

\* C26: a next() call raises the page index of a cursor by one and builds its
\* descriptor with the raised index, so the first descriptor of a cursor has
\* page 1; re-obtaining an iterator from the cursor sets the index back to 0,
\* and changes nothing else.
C26_IndexRisesByNextRestartsByIter ==
    [][/\ IsNext \/ IsIter
       /\ IsNext => /\ increment' = increment + 1
                    /\ Last(descs').p = increment'
                    /\ SubSeq(descs', 1, Len(descs)) = descs
                    /\ descs = <<>> => descs'[1].p = 1
       /\ IsIter => increment' = BaseIncrement
       /\ iterator' = iterator]_vars

\* a cursor that served pages 1 and 2, was re-obtained, and serves page 1 again
C26_Witness ==
    /\ restarted
    /\ Len(descs) >= 3
    /\ descs[1].p = 1
    /\ descs[2].p = 2
    /\ descs[3].p = 1
    /\ increment = 1

\* C26 as stated: the page index never decreases over next() calls and
\* re-obtained iterators, and each next() builds its descriptor with the
\* index already incremented, the first one with page 1.
C26_IndexNeverDecreases ==
    [][/\ increment' >= increment
       /\ IsNext => /\ Last(descs').p = increment'
                    /\ descs = <<>> => descs'[1].p = 1]_vars

(***************************************************************************)
(* The dedup set over a run and over the runs that share it.               *)
(***************************************************************************)
\* C27: no step of a run, and no start of a later run on the same dedup set,
\* removes an entry of the dedup set: after every step the set contains what
\* it contained before.
C27_DedupSetOnlyGrows == [][all_urls \subseteq all_urls']_vars

\* a second run that has added links to the set the first run had filled,
\* dropped a record in hydration, and ended
C27_Witness ==
    /\ run = 2
    /\ earlier # {}
    /\ discovered # <<>>
    /\ dropped > 0
    /\ pc = "done"
    /\ earlier \cup Range(discovered) \subseteq all_urls

(***************************************************************************)
(* Leaving the scope of an acquisition.                                    *)
(***************************************************************************)
\* a step in which a caller inside the scope of its acquisition leaves it
IsExit == \E c \in Callers : caller[c].st = "inside" /\ caller'[c].st = "idle"

\* C28: a step that takes a caller out of the scope of its acquisition leaves
\* the bucket's tokens, capacity, rate and last-refill timestamp as they were
\* just before it: the token the acquisition consumed is not returned.
C28_ExitLeavesBucketUnchanged ==
    [][IsExit => /\ current_bucket_size' = current_bucket_size
                 /\ max_bucket_size' = max_bucket_size
                 /\ rate' = rate
                 /\ bucket_resized_at' = bucket_resized_at]_vars

\* the one caller that entered has left, no time has passed since, and the
\* bucket is still one token short of its capacity
C28_Witness ==
    /\ entries = 1
    /\ \A c \in Callers : caller[c].st = "idle"
    /\ now = first_at
    /\ bucket_resized_at = first_at
    /\ current_bucket_size = max_bucket_size * One - One

(***************************************************************************)
(* The requests of discovery.                                              *)
(***************************************************************************)
\* the seed page's URL when the mode resolves a seed and discovery has drawn,
\* then the descriptors the cursor has built
Drawn ==
    (IF page_type \in SeedModes /\ rounds > 0 THEN <<SeedDescriptor>> ELSE <<>>)
    \o descs

\* C29: discovery draws its requests three per round; over the rounds they
\* are the seed page's URL (TREND and LIST mode) followed by the listing pages
\* 1, 2, 3, ... of the cursor, each once and none left out, the requests of a
\* round being the next three of that sequence; and the pages of a round are
\* reduced in the order they were drawn, the seed page ahead of listing page 1.
C29_DrawsThreeSeedThenPagesInOrder ==
    /\ Len(Drawn) = Draws * rounds
    /\ increment = Len(descs)
    /\ \A k \in 1..Len(descs) : descs[k].page = "listing" /\ descs[k].p = k
    /\ (Phase = "Discovery" /\ rounds > 0) =>
           /\ Len(tasks) = Draws
           /\ \A i \in 1..Draws : tasks[i].url = Drawn[Draws * (rounds - 1) + i]
    /\ pc = "reduce" =>
           \A i, j \in 1..Len(resources) :
               i < j => resources[i].url.p < resources[j].url.p

\* the second round of a seed mode, gathered: the seed page and listing pages
\* 1 and 2 gave links in the first round, pages 3, 4 and 5 are to be reduced
C29_Witness ==
    /\ page_type \in SeedModes
    /\ rounds = 2
    /\ pc = "reduce"
    /\ urls # <<>>
    /\ Len(resources) = Draws
    /\ resources[1].url.p = 3
    /\ resources[3].url.p = 5

(***************************************************************************)
(* The batches of hydration.                                               *)
(***************************************************************************)
\* the links queued when discovery ended, the extras included
Queued == Len(Accepted)

\* C30: from the end of discovery on, with L links queued, the links still
\* queued are L less M for every chunk started, the batches yielded never
\* number more than ceil(L / M), and when the stream has ended they number
\* exactly ceil(L / M), one for every chunk, empty or not.
C30_OneBatchPerChunkThenEnd ==
    Phase \in {"Hydration", "Done"} =>
        /\ Len(urls) = Queued - Min(Queued, ChunksStarted * m)
        /\ Len(batches) <= CeilDiv(Queued, m)
        /\ pc = "done" => /\ Len(batches) = CeilDiv(Queued, m)
                          /\ urls = <<>>

\* three links in chunks of two: the first chunk lost both its records and
\* gave an empty batch, the second gave its one record, and the stream ended
C30_Witness ==
    /\ pc = "done"
    /\ m = 2
    /\ Queued = 3
    /\ Len(batches) = 2
    /\ batches[1] = <<>>
    /\ batches[2] # <<>>

(***************************************************************************)
(* Tokens and requests of a call made with a bucket.                       *)
(***************************************************************************)
\* C31: in a call made with a bucket, a coroutine has at every moment taken
\* as many tokens as it has started requests, in the fetch under way and in
\* the fetches before it, and a fetch that tried the fallback after its
\* primary request failed has taken two tokens.
C31_TokenPerRequest ==
    bucket =>
        \A t \in DOMAIN coros :
            /\ coros[t].nt = coros[t].np + coros[t].nf
            /\ coros[t].spent = coros[t].sent
            /\ (Left(coros[t]) /\ TriesFallback(coros[t].primary)) =>
                   coros[t].nt = 2

\* a coroutine of a hydration call with a bucket whose two fetches both went
\* to the fallback: four requests, four tokens
C31_Witness ==
    /\ bucket
    /\ \E t \in DOMAIN coros :
           /\ coros[t].k = 2
           /\ coros[t].spent = 2
           /\ Left(coros[t])
           /\ coros[t].np = 1
           /\ coros[t].nf = 1
           /\ coros[t].nt = 2

(***************************************************************************)
(* The bucket over unbounded time.  The clock is read relative to the      *)
(* present: now stays at Horizon, and a tick moves bucket_resized_at and   *)
(* the ends of the sleeps one tick into the past.  resize_bucket and       *)
(* throttle use differences of times only, a refill is full after Horizon  *)
(* ticks at any rate, and a sleep that has ended stays ended, so times     *)
(* further back than Horizon, or than now for a sleep, are kept at that    *)
(* limit.  entries counts the acquisitions started modulo Wrap.  The       *)
(* clock advances, and asyncio's loop runs the callback of a sleep that    *)
(* has ended: weak fairness of Elapse and of each Wake(c).  Nothing        *)
(* obliges a caller to start an acquisition or to leave its scope.         *)
(***************************************************************************)
\* entries of SpecLive is counted modulo this
Wrap == 2

\* ticks after which a refill is full whatever the rate and the capacity
Horizon == MaxCapacity * One

\* TokenBucket.__init__ with valid arguments, the present at Horizon
LiveInit ==
    /\ max_bucket_size \in 1..MaxCapacity
    /\ rate \in 1..MaxRate
    /\ current_bucket_size = max_bucket_size * One
    /\ bucket_resized_at = NoTime
    /\ now = Horizon
    /\ caller = [c \in Callers |-> Idle]
    /\ entries = 0
    /\ first_at = NoTime

\* __aenter__, lines 106-108, to its first suspension or through the decrement
LiveEnter(c) ==
    /\ caller[c].st = "idle"
    /\ entries' = (entries + 1) % Wrap
    /\ bucket_resized_at' = now
    /\ LET size == ResizeBucket(now)
       IN  IF Throttled(size)
           THEN /\ current_bucket_size' = size
                /\ caller' = [caller EXCEPT ![c] =
                      [Idle EXCEPT !.st = "sleeping",
                                   !.until = now + SnoozeTime(size, rate)]]
           ELSE /\ current_bucket_size' = size - One
                /\ caller' = [caller EXCEPT ![c] = [Idle EXCEPT !.st = "inside"]]
    /\ UNCHANGED <<max_bucket_size, rate, now, first_at, runVars, cursorVars,
                   otherVars>>

\* time passes: every time kept moves one tick into the past
Elapse ==
    /\ bucket_resized_at' =
          IF bucket_resized_at = NoTime \/ bucket_resized_at = 0
          THEN bucket_resized_at ELSE bucket_resized_at - 1
    /\ caller' = [c \in Callers |->
                    IF caller[c].st = "sleeping" /\ caller[c].until > now
                    THEN [caller[c] EXCEPT !.until = @ - 1] ELSE caller[c]]
    /\ UNCHANGED <<max_bucket_size, rate, current_bucket_size, now, entries,
                   first_at, runVars, cursorVars, otherVars>>

InitLive == RunIdle /\ CursorIdle /\ LiveInit /\ OtherIdle

NextLive ==
    \/ \E c \in Callers : LiveEnter(c)
    \/ \E c \in Callers : Wake(c)
    \/ \E c \in Callers : Exit(c)
    \/ Elapse

SpecLive ==
    /\ InitLive
    /\ [][NextLive]_vars
    /\ WF_vars(Elapse)
    /\ \A c \in Callers : WF_vars(Wake(c))

\* from some moment on no caller starts an acquisition
NoMoreEntries == \E k \in 0..(Wrap - 1) : <>[](entries = k)

\* C32: with time advancing, a suspended caller eventually takes its token
\* and proceeds, provided the callers stop starting new acquisitions at some
\* moment.
C32_CompletesOnceEntriesStop ==
    NoMoreEntries =>
        \A c \in Callers : (caller[c].st = "sleeping") ~> (caller[c].st = "inside")

\* a caller that was suspended, found the bucket short again at two of its
\* re-checks, and then took its token
C32_Witness ==
    \E c \in Callers : caller[c].st = "inside" /\ caller[c].naps = 2

\* C32 as stated: every suspended caller eventually takes its token and
\* proceeds, also while the other callers keep acquiring.
C32_EveryAcquisitionCompletes ==
    \A c \in Callers : (caller[c].st = "sleeping") ~> (caller[c].st = "inside")

=============================================================================
